---- MODULE Spec2Model ----
(***************************************************************************)
(* The roster manager of assignment.py: PlayerRecord, PlayerManager (the   *)
(* record store) and its CSV save/load.                                    *)
(*                                                                         *)
(* Text is a sequence of one-character strings, so that the CSV writer and *)
(* reader work character by character.  An Optional[...] argument is None  *)
(* (the empty tuple) or Some(v) (the one-element tuple).                   *)
(***************************************************************************)
EXTENDS Integers, Sequences, FiniteSets, TLC

VARIABLES
    players,    \* PlayerManager.players: the ordered list of records
    disk,       \* the text of the CSV file on disk, or NoFile
    stdout,     \* the lines the most recent call printed
    last,       \* the most recent call: its name, arguments and outcome
    before,     \* players as it was when the most recent call started
    pc,         \* the caller: "menu" (about to call) or "returned" (a call just ended)
    addBase     \* Some(the list before the previous call) when that call was
                \* add_player, None otherwise

vars == <<players, disk, stdout, last, before, pc, addBase>>

-----------------------------------------------------------------------------
(* Bounds of the model *)

\* the longest list add_player is allowed to build
MaxPlayers == 2
\* the largest goals value offered to the model
MaxGoals == 10
\* the largest assists value offered to the model
MaxAssists == 3

-----------------------------------------------------------------------------
(* Python values *)

None == <<>>
Some(v) == <<v>>

\* the name or team of a record read from a CSV row that is too short
\* (csv.DictReader's restval, None)
NoneText == <<"None">>

NoFile == <<"ENOENT">>

\* `if name:` for an Optional[str]: None and '' are both false
Truthy(opt) == opt # None /\ opt[1] # <<>>

\* `x is not None`
IsNotNone(opt) == opt # None

-----------------------------------------------------------------------------
(* PlayerRecord *)

PlayerRecord(name, team, goals, assists) ==
    [name |-> name, team |-> team, goals |-> goals, assists |-> assists]

edit_falsy_goals(self, name, team, goals, assists) ==
    [name    |-> IF Truthy(name) THEN name[1] ELSE self.name,
     team    |-> IF Truthy(team) THEN team[1] ELSE self.team,
     goals   |-> IF goals # None /\ goals[1] # 0 THEN goals[1] ELSE self.goals,
     assists |-> IF IsNotNone(assists) THEN assists[1] ELSE self.assists]

\* PlayerRecord.edit: the record after the call
edit(self, name, team, goals, assists) ==
    [name    |-> IF Truthy(name) THEN name[1] ELSE self.name,
     team    |-> IF Truthy(team) THEN team[1] ELSE self.team,
     goals   |-> IF IsNotNone(goals) THEN goals[1] ELSE self.goals,
     assists |-> IF IsNotNone(assists) THEN assists[1] ELSE self.assists]

-----------------------------------------------------------------------------
(* Python list operations.  Indices are Python's: 0-based, and a negative  *)
(* index i in -len .. -1 addresses element len + i.                        *)

\* an index Python's list accepts
PyIndexOk(s, i) == -Len(s) <= i /\ i < Len(s)

\* the 1-based position a Python index addresses
PyPos(s, i) == IF i < 0 THEN Len(s) + i + 1 ELSE i + 1

PyDel_last(s, i) == SubSeq(s, 1, Len(s) - 1)

\* del s[i]
PyDel(s, i) ==
    SubSeq(s, 1, PyPos(s, i) - 1) \o SubSeq(s, PyPos(s, i) + 1, Len(s))

InRange_no_lower(index, n) == index < n

\* the guard `0 <= index < len(self.players)`
InRange(index, n) == 0 <= index /\ index < n

-----------------------------------------------------------------------------
(* The outcome of a call *)

NoCall == [op |-> "none", status |-> "returned", args |-> <<>>]
Returned(op, args) == [op |-> op, status |-> "returned", args |-> args]
Raised(op, args, exc) == [op |-> op, status |-> "raised", exc |-> exc, args |-> args]

-----------------------------------------------------------------------------
(* PlayerManager *)

Init ==
    /\ players = <<>>
    /\ disk = NoFile
    /\ stdout = <<>>
    /\ last = NoCall
    /\ before = <<>>
    /\ pc = "menu"
    /\ addBase = None

add_player_front(player) ==
    /\ Len(players) < MaxPlayers
    /\ players' = <<player>> \o players
    /\ stdout' = <<"Player added successfully.">>
    /\ last' = Returned("add_player", [player |-> player])
    /\ before' = players
    /\ pc' = "returned"
    /\ UNCHANGED <<disk, addBase>>

add_player(player) ==
    /\ Len(players) < MaxPlayers
    /\ players' = Append(players, player)
    /\ stdout' = <<"Player added successfully.">>
    /\ last' = Returned("add_player", [player |-> player])
    /\ before' = players
    /\ pc' = "returned"
    /\ UNCHANGED <<disk, addBase>>

edit_player(index, updated_player) ==
    LET args == [index |-> index, updated_player |-> updated_player]
    IN  /\ IF InRange(index, Len(players))
           THEN IF PyIndexOk(players, index)
                THEN /\ players' =
                          [players EXCEPT ![PyPos(players, index)] =
                              edit(@, updated_player.name, updated_player.team,
                                   updated_player.goals, updated_player.assists)]
                     /\ stdout' = <<"Player updated successfully.">>
                     /\ last' = Returned("edit_player", args)
                ELSE /\ players' = players
                     /\ stdout' = <<>>
                     /\ last' = Raised("edit_player", args, "IndexError")
           ELSE /\ players' = players
                /\ stdout' = <<"Invalid index.">>
                /\ last' = Returned("edit_player", args)
        /\ before' = players
        /\ pc' = "returned"
        /\ UNCHANGED <<disk, addBase>>

delete_player(index) ==
    LET args == [index |-> index]
    IN  /\ IF InRange(index, Len(players))
           THEN IF PyIndexOk(players, index)
                THEN /\ players' = PyDel(players, index)
                     /\ stdout' = <<"Player deleted successfully.">>
                     /\ last' = Returned("delete_player", args)
                ELSE /\ players' = players
                     /\ stdout' = <<>>
                     /\ last' = Raised("delete_player", args, "IndexError")
           ELSE /\ players' = players
                /\ stdout' = <<"Invalid index.">>
                /\ last' = Returned("delete_player", args)
        /\ before' = players
        /\ pc' = "returned"
        /\ UNCHANGED <<disk, addBase>>

\* statistics.mean of a non-empty list of integers, as the exact fraction
mean(data) ==
    LET Sum[k \in 0 .. Len(data)] == IF k = 0 THEN 0 ELSE Sum[k - 1] + data[k]
    IN  [num |-> Sum[Len(data)], den |-> Len(data)]

\* sorted(data) for integers
RECURSIVE sorted(_)
sorted(data) ==
    IF data = <<>> THEN <<>>
    ELSE LET rest == sorted(Tail(data))
             k == Cardinality({j \in 1 .. Len(rest) : rest[j] < Head(data)})
         IN  SubSeq(rest, 1, k) \o <<Head(data)>> \o SubSeq(rest, k + 1, Len(rest))

\* statistics.median of a non-empty list of integers, as the exact fraction
median(data) ==
    LET n == Len(data)
        d == sorted(data)
    IN  IF n % 2 = 1
        THEN [num |-> d[(n \div 2) + 1], den |-> 1]
        ELSE [num |-> d[n \div 2] + d[(n \div 2) + 1], den |-> 2]

Zero == [num |-> 0, den |-> 1]

calculate_average_goals ==
    /\ last' = [op |-> "calculate_average_goals", status |-> "returned", args |-> <<>>,
                value |-> IF players # <<>>
                          THEN mean([k \in 1 .. Len(players) |-> players[k].goals])
                          ELSE Zero]
    /\ stdout' = <<>>
    /\ before' = players
    /\ pc' = "returned"
    /\ UNCHANGED <<players, disk, addBase>>

calculate_median_assists ==
    /\ last' = [op |-> "calculate_median_assists", status |-> "returned", args |-> <<>>,
                value |-> IF players # <<>>
                          THEN median([k \in 1 .. Len(players) |-> players[k].assists])
                          ELSE Zero]
    /\ stdout' = <<>>
    /\ before' = players
    /\ pc' = "returned"
    /\ UNCHANGED <<players, disk, addBase>>

filter_by_team(team) ==
    /\ last' = [op |-> "filter_by_team", status |-> "returned", args |-> [team |-> team],
                value |-> LET Keep(player) == player.team = team
                          IN  SelectSeq(players, Keep)]
    /\ stdout' = <<>>
    /\ before' = players
    /\ pc' = "returned"
    /\ UNCHANGED <<players, disk, addBase>>

RECURSIVE sort_by_goals_flipped(_, _)
sort_by_goals_flipped(s, reverse) ==
    IF s = <<>> THEN <<>>
    ELSE LET done == sort_by_goals_flipped(SubSeq(s, 1, Len(s) - 1), FALSE)
             x == s[Len(s)]
             k == Cardinality({j \in 1 .. Len(done) : done[j].goals <= x.goals})
             asc == SubSeq(done, 1, k) \o <<x>> \o SubSeq(done, k + 1, Len(done))
         IN  IF reverse THEN [j \in 1 .. Len(asc) |-> asc[Len(asc) + 1 - j]] ELSE asc

\* list.sort(key=lambda x: x.goals, reverse=reverse): stable in both directions
\* (elements of equal key keep their order, also when reverse is true)
RECURSIVE sort_by_goals(_, _)
sort_by_goals(s, reverse) ==
    IF s = <<>> THEN <<>>
    ELSE LET done == sort_by_goals(SubSeq(s, 1, Len(s) - 1), reverse)
             x == s[Len(s)]
             k == Cardinality({j \in 1 .. Len(done) :
                                 IF reverse THEN done[j].goals >= x.goals
                                            ELSE done[j].goals <= x.goals})
         IN  SubSeq(done, 1, k) \o <<x>> \o SubSeq(done, k + 1, Len(done))

filter_by_goal_range(min_goals, max_goals, ascending) ==
    /\ last' = [op |-> "filter_by_goal_range", status |-> "returned",
                args |-> [min_goals |-> min_goals, max_goals |-> max_goals,
                          ascending |-> ascending],
                value |-> LET Keep(player) ==
                                  min_goals <= player.goals /\ player.goals <= max_goals
                          IN  sort_by_goals(SelectSeq(players, Keep), ~ascending)]
    /\ stdout' = <<>>
    /\ before' = players
    /\ pc' = "returned"
    /\ UNCHANGED <<players, disk, addBase>>

-----------------------------------------------------------------------------
(* The csv module, dialect excel: delimiter ',', quotechar '"', doublequote, *)
(* lineterminator '\r\n', QUOTE_MINIMAL, not strict.                         *)

Delimiter == ","
QuoteChar == "\""
CR == "\r"
LF == "\n"

Digits == <<"0", "1", "2", "3", "4", "5", "6", "7", "8", "9">>

\* str(n) for an integer
RECURSIVE str(_)
str(n) ==
    IF n < 0 THEN <<"-">> \o str(-n)
    ELSE IF n < 10 THEN <<Digits[n + 1]>>
    ELSE str(n \div 10) \o <<Digits[(n % 10) + 1]>>

IsDigit(c) == \E d \in 1 .. 10 : Digits[d] = c
DigitValue(c) == (CHOOSE d \in 1 .. 10 : Digits[d] = c) - 1
IsSpace(c) == c \in {" ", "\t", CR, LF}

RECURSIVE strip(_)
strip(t) ==
    IF t = <<>> THEN t
    ELSE IF IsSpace(Head(t)) THEN strip(Tail(t))
    ELSE IF IsSpace(t[Len(t)]) THEN strip(SubSeq(t, 1, Len(t) - 1))
    ELSE t

RECURSIVE DigitsValue(_)
DigitsValue(t) ==
    IF t = <<>> THEN 0 ELSE 10 * DigitsValue(SubSeq(t, 1, Len(t) - 1)) + DigitValue(t[Len(t)])

\* int(t) for text over the characters of the model (letters, digits, sign,
\* white space, comma, quote): Some(n), or None for ValueError
int(t) ==
    LET body == strip(t)
        signed == body # <<>> /\ Head(body) \in {"+", "-"}
        digits == IF signed THEN Tail(body) ELSE body
    IN  IF digits # <<>> /\ \A k \in 1 .. Len(digits) : IsDigit(digits[k])
        THEN Some(IF signed /\ Head(body) = "-" THEN -DigitsValue(digits)
                  ELSE DigitsValue(digits))
        ELSE None

\* the text the writer gives a value: None is written as ''
FieldText(v) == IF v = NoneText THEN <<>> ELSE v

RECURSIVE DoubleQuotes(_)
DoubleQuotes(t) ==
    IF t = <<>> THEN <<>>
    ELSE IF Head(t) = QuoteChar
         THEN <<QuoteChar, QuoteChar>> \o DoubleQuotes(Tail(t))
         ELSE <<Head(t)>> \o DoubleQuotes(Tail(t))

NeedsQuotes(t) == \E k \in 1 .. Len(t) : t[k] \in {Delimiter, QuoteChar, CR, LF}

WriteField_unquoted(t) == t

\* one field as csv.writer writes it (QUOTE_MINIMAL); a row here has four
\* fields, so the rule for a row of one empty field does not apply
WriteField(t) ==
    IF NeedsQuotes(t) THEN <<QuoteChar>> \o DoubleQuotes(t) \o <<QuoteChar>> ELSE t

\* csv.writer.writerow
RECURSIVE JoinFields(_)
JoinFields(fields) ==
    IF fields = <<>> THEN <<>>
    ELSE IF Len(fields) = 1 THEN WriteField(fields[1])
    ELSE WriteField(fields[1]) \o <<Delimiter>> \o JoinFields(Tail(fields))

writerow(fields) == JoinFields(fields) \o <<CR, LF>>

Name == <<"N", "a", "m", "e">>
Team == <<"T", "e", "a", "m">>
Goals == <<"G", "o", "a", "l", "s">>
Assists == <<"A", "s", "s", "i", "s", "t", "s">>
fieldnames == <<Name, Team, Goals, Assists>>

\* the text save_to_csv writes for a list of records
RECURSIVE WriteRows(_)
WriteRows(s) ==
    IF s = <<>> THEN <<>>
    ELSE writerow(<<FieldText(s[1].name), FieldText(s[1].team),
                    str(s[1].goals), str(s[1].assists)>>) \o WriteRows(Tail(s))

CsvText(s) == writerow(fieldnames) \o WriteRows(s)

\* csv.reader's parser (Modules/_csv.c, parse_process_char): st is the parser
\* state, the field being collected and the fields of the record so far
SaveField(st) == [st EXCEPT !.fields = Append(@, st.field), !.field = <<>>]
AddChar(st, c) == [st EXCEPT !.field = Append(@, c)]

ProcessChar(st, c) ==
    LET eol == c \in {CR, LF}
    IN  CASE st.state = "START_RECORD" /\ eol ->
                [st EXCEPT !.state = "EAT_CRNL"]
          [] st.state \in {"START_RECORD", "START_FIELD"} /\ ~eol ->
                IF c = QuoteChar THEN [st EXCEPT !.state = "IN_QUOTED_FIELD"]
                ELSE IF c = Delimiter THEN [SaveField(st) EXCEPT !.state = "START_FIELD"]
                ELSE [AddChar(st, c) EXCEPT !.state = "IN_FIELD"]
          [] st.state = "START_FIELD" /\ eol ->
                [SaveField(st) EXCEPT !.state = "EAT_CRNL"]
          [] st.state = "IN_FIELD" ->
                IF eol THEN [SaveField(st) EXCEPT !.state = "EAT_CRNL"]
                ELSE IF c = Delimiter THEN [SaveField(st) EXCEPT !.state = "START_FIELD"]
                ELSE AddChar(st, c)
          [] st.state = "IN_QUOTED_FIELD" ->
                IF c = QuoteChar THEN [st EXCEPT !.state = "QUOTE_IN_QUOTED_FIELD"]
                ELSE AddChar(st, c)
          [] st.state = "QUOTE_IN_QUOTED_FIELD" ->
                IF c = QuoteChar THEN [AddChar(st, c) EXCEPT !.state = "IN_QUOTED_FIELD"]
                ELSE IF c = Delimiter THEN [SaveField(st) EXCEPT !.state = "START_FIELD"]
                ELSE IF eol THEN [SaveField(st) EXCEPT !.state = "EAT_CRNL"]
                ELSE [AddChar(st, c) EXCEPT !.state = "IN_FIELD"]
          [] st.state = "EAT_CRNL" ->
                \* "new-line character seen in unquoted field"; a line holds
                \* nothing after its line end, so this is never met
                IF eol THEN st ELSE [st EXCEPT !.state = "ERROR"]
          [] OTHER -> st

\* the end of a line of the file (parse_process_char with EOL); when the parser
\* is back at START_RECORD the record is complete and Reader_iternext returns it
EndOfLine(st) ==
    LET st1 == CASE st.state \in {"START_FIELD", "IN_FIELD", "QUOTE_IN_QUOTED_FIELD"} ->
                       [SaveField(st) EXCEPT !.state = "START_RECORD"]
                 [] st.state = "EAT_CRNL" -> [st EXCEPT !.state = "START_RECORD"]
                 [] OTHER -> st
    IN  IF st1.state = "START_RECORD"
        THEN [st1 EXCEPT !.rows = Append(@, st1.fields), !.fields = <<>>]
        ELSE st1

\* the end of the file inside a quoted field: the record so far is returned
EndOfFile(st) ==
    IF st.state = "IN_QUOTED_FIELD" \/ st.field # <<>>
    THEN Append(st.rows, Append(st.fields, st.field))
    ELSE st.rows

\* the file is read line by line (newline=''): a line ends after LF, after a CR
\* that no LF follows, and at the end of the text
RECURSIVE Feed(_, _, _)
Feed(text, i, st) ==
    IF st.state = "ERROR" \/ i > Len(text) THEN EndOfFile(st)
    ELSE LET c == text[i]
             st1 == ProcessChar(st, c)
             lineEnd == \/ c = LF
                        \/ c = CR /\ ~(i < Len(text) /\ text[i + 1] = LF)
                        \/ i = Len(text)
         IN  Feed(text, i + 1, IF lineEnd THEN EndOfLine(st1) ELSE st1)

\* list(csv.reader(file)): the records of a text, each a list of fields
reader(text) ==
    Feed(text, 1, [state |-> "START_RECORD", field |-> <<>>, fields |-> <<>>, rows |-> <<>>])

\* row[key] of a csv.DictReader row: Some(text); None for a column the row is
\* too short for (restval); KeyError when the header has no such column
KeyError == <<"KeyError">>
Lookup(header, row, key) ==
    LET at == {k \in 1 .. Len(header) : header[k] = key}
        k == CHOOSE m \in at : \A o \in at : o <= m
    IN  IF at = {} THEN KeyError
        ELSE IF k <= Len(row) THEN Some(row[k])
        ELSE None

\* PlayerRecord(name=row['Name'], team=row['Team'], goals=int(row['Goals']),
\* assists=int(row['Assists'])): the record, or the exception raised
RowRecord(header, row) ==
    LET name == Lookup(header, row, Name)
        team == Lookup(header, row, Team)
        goals == Lookup(header, row, Goals)
        assists == Lookup(header, row, Assists)
        Text(v) == IF v = None THEN NoneText ELSE v[1]
    IN  IF name = KeyError \/ team = KeyError \/ goals = KeyError
        THEN [exc |-> "KeyError"]
        ELSE IF goals = None THEN [exc |-> "TypeError"]
        ELSE IF int(goals[1]) = None THEN [exc |-> "ValueError"]
        ELSE IF assists = KeyError THEN [exc |-> "KeyError"]
        ELSE IF assists = None THEN [exc |-> "TypeError"]
        ELSE IF int(assists[1]) = None THEN [exc |-> "ValueError"]
        ELSE [exc |-> "none",
              record |-> PlayerRecord(Text(name), Text(team), int(goals[1])[1],
                                      int(assists[1])[1])]

\* csv.DictReader: the first record is the header, empty records after it are
\* skipped
DataRows(rows) == SelectSeq(Tail(rows), LAMBDA row : row # <<>>)

\* the loop of load_from_csv over the data rows, appending to acc until a row
\* raises
RECURSIVE LoadRows(_, _, _)
LoadRows(header, rows, acc) ==
    IF rows = <<>> THEN [players |-> acc, exc |-> "none"]
    ELSE LET r == RowRecord(header, Head(rows))
         IN  IF r.exc # "none" THEN [players |-> acc, exc |-> r.exc]
             ELSE LoadRows(header, Tail(rows), Append(acc, r.record))

load_merge(old, text) ==
    IF text = NoFile THEN [players |-> old, exc |-> "FileNotFoundError"]
    ELSE LET rows == reader(text)
         IN  IF rows = <<>> THEN [players |-> old, exc |-> "none"]
             ELSE LoadRows(rows[1], DataRows(rows), old)

\* load_from_csv on a list `old` and the text of the file: the list it leaves
\* and the exception it raises.  The list is emptied before the file is opened.
load(old, text) ==
    IF text = NoFile THEN [players |-> <<>>, exc |-> "FileNotFoundError"]
    ELSE LET rows == reader(text)
         IN  IF rows = <<>> THEN [players |-> <<>>, exc |-> "none"]
             ELSE LoadRows(rows[1], DataRows(rows), <<>>)

-----------------------------------------------------------------------------
(* The files load_from_csv can be pointed at: the file save_to_csv writes,  *)
(* and files with fixed text that something else wrote.                     *)

SavedFile == "players.csv"

HeaderLine == Name \o <<",">> \o Team \o <<",">> \o Goals \o <<",">> \o Assists

Fixtures ==
    [good       |-> HeaderLine \o <<LF>>
                    \o <<"a", ",", "x", ",", "0", ",", "0", LF>>
                    \o <<CR, LF>>
                    \o <<"\"", "a", ",", "b", "\"", ",", "x", ",", "1", ",", "0">>,
     bad_goals  |-> HeaderLine \o <<CR, LF>>
                    \o <<"a", ",", "x", ",", "0", ",", "0", CR, LF>>
                    \o <<"a", ",", "x", ",", "a", ",", "0", CR, LF>>,
     short_row  |-> HeaderLine \o <<CR, LF>>
                    \o <<"a", ",", "x", ",", "0", CR, LF>>,
     no_assists |-> Name \o <<",">> \o Team \o <<",">> \o Goals \o <<CR, LF>>
                    \o <<"a", ",", "x", ",", "0", CR, LF>>,
     empty      |-> <<>>]

Filenames == {SavedFile} \cup DOMAIN Fixtures

FileText(filename) == IF filename = SavedFile THEN disk ELSE Fixtures[filename]

save_to_csv(filename) ==
    /\ filename = SavedFile
    /\ disk' = CsvText(players)
    /\ last' = Returned("save_to_csv", [filename |-> filename])
    /\ stdout' = <<>>
    /\ before' = players
    /\ pc' = "returned"
    /\ UNCHANGED <<players, addBase>>

load_from_csv(filename) ==
    LET result == load(players, FileText(filename))
        args == [filename |-> filename]
    IN  /\ players' = result.players
        /\ last' = IF result.exc = "none"
                   THEN Returned("load_from_csv", args)
                   ELSE Raised("load_from_csv", args, result.exc)
        /\ stdout' = <<>>
        /\ before' = players
        /\ pc' = "returned"
        /\ UNCHANGED <<disk, addBase>>

\* ConsoleApp.run: the loop comes back to the menu after a call.  The record
\* of the call is dropped; only add_player's starting list is kept, for the
\* call that follows it.
run ==
    /\ pc = "returned"
    /\ pc' = "menu"
    /\ addBase' = IF last.op = "add_player" THEN Some(before) ELSE None
    /\ last' = NoCall
    /\ before' = <<>>
    /\ stdout' = <<>>
    /\ UNCHANGED <<players, disk>>

-----------------------------------------------------------------------------
(* Inputs *)

Names == {<<"a">>, <<"b">>}
Teams == {<<"x">>, <<"y">>}

Records ==
    {PlayerRecord(n, t, g, a) : n \in Names, t \in Teams, g \in {0, MaxGoals}, a \in {0, MaxAssists}}

\* candidate records handed to edit_player: every field absent, falsy or set
Patches ==
    [name    : {None, Some(<<>>), Some(<<"b">>)},
     team    : {None, Some(<<>>), Some(<<"y">>)},
     goals   : {None, Some(0), Some(MaxGoals)},
     assists : {None, Some(0), Some(MaxAssists)}]

\* indices offered to edit_player and delete_player
Indices == -1 .. MaxPlayers

\* records for the filters: three goal values, ties on every one of them
FilterRecords ==
    {PlayerRecord(n, t, g, 0) : n \in Names, t \in Teams, g \in {0, 1, MaxGoals}}

GoalBounds == {0, 1, MaxGoals}

\* records for the CSV file: plain text, a comma, a quote, empty text
CsvRecords ==
    {PlayerRecord(<<"a">>, <<"x">>, 0, 0),
     PlayerRecord(<<"a", ",", "b">>, <<"x">>, 1, 0),
     PlayerRecord(<<"\"", "a">>, <<",">>, MaxGoals, MaxAssists),
     PlayerRecord(<<>>, <<>>, 0, 1)}

\* ConsoleApp.run, one turn of the loop: at the menu one operation is called;
\* after it the loop comes back to the menu
Next ==
    \/ pc = "menu" /\ \E player \in Records : add_player(player)
    \/ pc = "menu" /\ \E index \in Indices, updated_player \in Patches :
                          edit_player(index, updated_player)
    \/ pc = "menu" /\ \E index \in Indices : delete_player(index)
    \/ pc = "menu" /\ calculate_average_goals
    \/ pc = "menu" /\ calculate_median_assists
    \/ run

Spec == Init /\ [][Next]_vars

\* the store and its filters
NextFilter ==
    \/ pc = "menu" /\ \E player \in FilterRecords : add_player(player)
    \/ pc = "menu" /\ \E index \in Indices : delete_player(index)
    \/ pc = "menu" /\ \E team \in Teams \cup {<<"z">>} : filter_by_team(team)
    \/ pc = "menu" /\ \E min_goals \in GoalBounds, max_goals \in GoalBounds,
                          ascending \in BOOLEAN :
                          filter_by_goal_range(min_goals, max_goals, ascending)
    \/ run

FilterSpec == Init /\ [][NextFilter]_vars

\* the store and its CSV file
NextCsv ==
    \/ pc = "menu" /\ \E player \in CsvRecords : add_player(player)
    \/ pc = "menu" /\ \E index \in Indices : delete_player(index)
    \/ pc = "menu" /\ save_to_csv(SavedFile)
    \/ pc = "menu" /\ \E filename \in Filenames : load_from_csv(filename)
    \/ run

CsvSpec == Init /\ [][NextCsv]_vars

-----------------------------------------------------------------------------
(* Properties *)

\* the most recent call is `op`, and it has ended
Ended(op) == pc = "returned" /\ last.op = op

\* the most recent call is edit_player or delete_player with an index outside
\* [0, length)
InvalidIndexCall ==
    /\ pc = "returned"
    /\ last.op \in {"edit_player", "delete_player"}
    /\ (last.args.index < 0 \/ last.args.index >= Len(before))

\* C1: the reload is atomic: load_from_csv either succeeds and the store holds
\* one record per data row of the file, or it fails and the store is, in
\* content and order, what it was before the call.
C1_FailedLoadKeepsStore ==
    Ended("load_from_csv") =>
        IF last.status = "raised"
        THEN players = before
        ELSE LET rows == reader(FileText(last.args.filename))
             IN  Len(players) = (IF rows = <<>> THEN 0 ELSE Len(DataRows(rows)))

\* C2: edit_player and delete_player called with an index outside [0, length)
\* signal IndexError to the caller instead of returning normally.
C2_InvalidIndexRaises ==
    InvalidIndexCall => (last.status = "raised" /\ last.exc = "IndexError")

\* C3: edit_player and delete_player called with an index outside [0, length),
\* negative indices included, leave the store unchanged.
C3_InvalidIndexKeepsStore ==
    InvalidIndexCall => players = before

C3_Witness ==
    /\ InvalidIndexCall
    /\ last.args.index = -1
    /\ Len(before) = 2
    /\ before[1] # before[2]
    /\ players = before

\* C4: edit_player with an index in [0, length) changes only the record at the
\* index: name and team are overwritten exactly when the given text is present
\* and not empty, goals and assists exactly when the given number is present
\* (0 included); every other field and record, the length and the order stay.
C4_EditChangesOnlyGiven ==
    (Ended("edit_player") /\ 0 <= last.args.index /\ last.args.index < Len(before)) =>
        LET i == last.args.index + 1
            patch == last.args.updated_player
            old == before[i]
            new == players[i]
        IN  /\ last.status = "returned"
            /\ Len(players) = Len(before)
            /\ \A k \in 1 .. Len(before) : k # i => players[k] = before[k]
            /\ new.name = (IF patch.name = <<>> \/ patch.name = << <<>> >>
                           THEN old.name ELSE patch.name[1])
            /\ new.team = (IF patch.team = <<>> \/ patch.team = << <<>> >>
                           THEN old.team ELSE patch.team[1])
            /\ new.goals = (IF patch.goals = <<>> THEN old.goals ELSE patch.goals[1])
            /\ new.assists = (IF patch.assists = <<>> THEN old.assists
                              ELSE patch.assists[1])

C4_Witness ==
    /\ Ended("edit_player")
    /\ last.args.index = 1
    /\ Len(before) = 2
    /\ last.args.updated_player.name = << <<>> >>
    /\ last.args.updated_player.team = <<>>
    /\ last.args.updated_player.goals = <<0>>
    /\ before[2].goals # 0
    /\ players[2].goals = 0
    /\ players[2].name = before[2].name

\* C5: load_from_csv of the file save_to_csv wrote for the store (the file on
\* disk is the text of the store as it is when the load starts) gives the
\* store back: same length, order and field values, also for the empty store
\* and for names or teams holding a comma or a quote.
C5_SaveLoadRoundTrip ==
    (Ended("load_from_csv") /\ last.args.filename = SavedFile /\ disk = CsvText(before)) =>
        (last.status = "returned" /\ players = before)

C5_Witness ==
    /\ Ended("load_from_csv")
    /\ last.args.filename = SavedFile
    /\ disk = CsvText(before)
    /\ Len(before) = 2
    /\ before[1].name = <<"\"", "a">>
    /\ before[2].name = <<"a", ",", "b">>
    /\ players = before

\* C6: filter_by_goal_range returns exactly the stored records with
\* min_goals <= goals <= max_goals, ordered by goals (non-decreasing when
\* ascending, non-increasing otherwise), records of equal goals in their stored
\* order in both directions; the store itself is unchanged.
C6_FilterByGoalRange ==
    Ended("filter_by_goal_range") =>
        LET a == last.args
            result == last.value
            Kept == {k \in 1 .. Len(before) :
                        a.min_goals <= before[k].goals /\ before[k].goals <= a.max_goals}
            Precedes(k, l) ==
                \/ IF a.ascending THEN before[k].goals < before[l].goals
                                  ELSE before[k].goals > before[l].goals
                \/ before[k].goals = before[l].goals /\ k < l
        IN  /\ players = before
            /\ Len(result) = Cardinality(Kept)
            /\ \E from \in [1 .. Len(result) -> Kept] :
                  /\ \A j \in 1 .. Len(result) : result[j] = before[from[j]]
                  /\ \A j1, j2 \in 1 .. Len(result) :
                        j1 < j2 => Precedes(from[j1], from[j2])

C6_Witness ==
    /\ Ended("filter_by_goal_range")
    /\ ~last.args.ascending
    /\ Len(last.value) = 2
    /\ last.value[1].goals = last.value[2].goals
    /\ last.value[1] # last.value[2]
    /\ last.value = before

\* C7: add_player followed immediately by delete_player at the index of the
\* added record (the old length) restores the list the add started from.
C7_AddThenRemove ==
    (Ended("delete_player") /\ addBase # None
        /\ last.args.index = Len(addBase[1])) => players = addBase[1]

C7_Witness ==
    /\ Ended("delete_player")
    /\ addBase # None
    /\ last.args.index = Len(addBase[1])
    /\ Len(addBase[1]) = 1
    /\ before[2] # before[1]
    /\ players = addBase[1]

\* C8: no operation of the store prints: nothing is written to the console
\* by any call.
C8_NothingPrinted == stdout = <<>>

\* C9: delete_player with an index i in [0, length) removes exactly the record
\* at i: the length drops by one, records before i stay, every record after i
\* moves down by one, no field changes.
C9_DeleteShiftsDown ==
    (Ended("delete_player") /\ 0 <= last.args.index /\ last.args.index < Len(before)) =>
        LET i == last.args.index + 1
        IN  /\ last.status = "returned"
            /\ Len(players) = Len(before) - 1
            /\ \A k \in 1 .. Len(before) :
                  /\ k < i => players[k] = before[k]
                  /\ k > i => players[k - 1] = before[k]

C9_Witness ==
    /\ Ended("delete_player")
    /\ last.args.index = 0
    /\ Len(before) = 2
    /\ before[1] # before[2]
    /\ players = <<before[2]>>

\* C10: a load_from_csv that succeeds replaces the store: afterwards it holds
\* one record per data row of the file, in file order, and nothing of what it
\* held before.
C10_LoadReplaces ==
    (Ended("load_from_csv") /\ last.status = "returned") =>
        LET rows == reader(FileText(last.args.filename))
            data == IF rows = <<>> THEN <<>> ELSE DataRows(rows)
        IN  /\ Len(players) = Len(data)
            /\ \A k \in 1 .. Len(data) : players[k] = RowRecord(rows[1], data[k]).record
            /\ last.args.filename = "good" =>
                  players = <<PlayerRecord(<<"a">>, <<"x">>, 0, 0),
                              PlayerRecord(<<"a", ",", "b">>, <<"x">>, 1, 0)>>
            /\ last.args.filename = "empty" => players = <<>>

C10_Witness ==
    /\ Ended("load_from_csv")
    /\ last.status = "returned"
    /\ last.args.filename = "good"
    /\ Len(before) = 2
    /\ before[1].name = <<>>
    /\ Len(players) = 2
    /\ players[1].name = <<"a">>

====
